---------------------------- MODULE Spec2Model ----------------------------
(***************************************************************************)
(* nyctraintime: the HTTP edge layer of src/main.rs.                       *)
(*                                                                         *)
(* A request passes the tower stack built in main (main.rs:42-48), then    *)
(* handle_train_calendar (main.rs:66-125) or handle_index (main.rs:127).   *)
(* Strings are sequences of one-character strings, so that strip_suffix    *)
(* and the allow-list comparison are computed, not assumed.                *)
(* Time is kept relative: a cache entry carries the seconds since its      *)
(* insertion, a rate-limiter key the seconds its bucket still owes.        *)
(***************************************************************************)
EXTENDS Naturals, Sequences, FiniteSets

VARIABLES
    req,        \* slot -> the request being served in it
    cache,      \* AppState.cache: key -> [content, age]; DOMAIN = keys present
    debt,       \* governor state per client address (seconds owed)
    inflight,   \* per route: permits of its ConcurrencyLimit semaphore in use
    background, \* calendar requests awaiting upstream that no slot tracks
    probe,      \* input and result of the last pure call under test
    hist        \* per client: requests issued at this instant, and whether
                \* the client ever issued more than one per second

vars == <<req, cache, debt, inflight, background, probe, hist>>

---------------------------------------------------------------------------
(* Bounds of the model *)

NumReq == 2          \* request slots served concurrently
NumVersions == 2     \* distinct calendar documents upstream may produce per line
MaxStem == 2         \* length of the generated tokens, before a suffix

---------------------------------------------------------------------------
(* Program constants *)

MaxCapacity == 100        \* main.rs:23  .max_capacity(100)
TimeToLive == 30          \* main.rs:24  .time_to_live(Duration::from_secs(30))
ReplenishPeriod == 10     \* main.rs:31  .per_second(10): one cell per 10 seconds
BurstSize == 20           \* main.rs:32  .burst_size(20)
ConcurrencyLimit == 50    \* main.rs:47  ConcurrencyLimitLayer::new(50)

BAD_REQUEST == 400             \* main.rs:79
OK == 200                      \* main.rs:92, 110
INTERNAL_SERVER_ERROR == 500   \* main.rs:119
TOO_MANY_REQUESTS == 429       \* the response of GovernorLayer, main.rs:44
NoStatus == 0                  \* no response was produced (yet)

---------------------------------------------------------------------------
(* Strings *)

Ics == <<".", "i", "c", "s">>

\* str::strip_suffix: Some(prefix) when s ends with suffix, None otherwise.
strip_suffix(s, suffix) ==
    IF /\ Len(s) >= Len(suffix)
       /\ SubSeq(s, Len(s) - Len(suffix) + 1, Len(s)) = suffix
    THEN [some |-> TRUE, v |-> SubSeq(s, 1, Len(s) - Len(suffix))]
    ELSE [some |-> FALSE, v |-> <<>>]

unwrap_or(opt, default) == IF opt.some THEN opt.v ELSE default

\* A stripping that goes on while the suffix is there (here: twice).
StripIcsRepeated(t) ==
    unwrap_or(strip_suffix(unwrap_or(strip_suffix(t, Ics), t), Ics),
              unwrap_or(strip_suffix(t, Ics), t))

\* main.rs:70  let train_name = train_name.strip_suffix(".ics").unwrap_or(&train_name);
StripIcs(t) == unwrap_or(strip_suffix(t, Ics), t)

\* main.rs:72-75
VALID_TRAINS ==
    << <<"A">>, <<"C">>, <<"E">>, <<"B">>, <<"D">>, <<"F">>, <<"M">>, <<"G">>,
       <<"J">>, <<"Z">>, <<"L">>, <<"N">>, <<"Q">>, <<"R">>, <<"W">>, <<"1">>,
       <<"2">>, <<"3">>, <<"4">>, <<"5">>, <<"6">>, <<"7">>, <<"S">>,
       <<"S", "I">> >>

\* slice::contains
contains(slice, x) == \E i \in 1..Len(slice) : slice[i] = x

\* A validator that folds case before it compares.
UpperChar(ch) ==
    CASE ch = "q" -> "Q" [] ch = "s" -> "S" [] ch = "i" -> "I" [] OTHER -> ch

IsValidTrainAnyCase(t) ==
    contains(VALID_TRAINS,
             [i \in 1..Len(StripIcs(t)) |-> UpperChar(StripIcs(t)[i])])

\* main.rs:70-77: the token as the handler compares it, and the verdict.
IsValidTrain(t) == contains(VALID_TRAINS, StripIcs(t))

---------------------------------------------------------------------------
(* Inputs *)

Slots == 1..NumReq
Clients == {"10.0.0.1", "10.0.0.2"}
Routes == {"index", "calendar"}

\* main.rs:37-41: the two routes of the Router.
IndexPath == [route |-> "index", token |-> <<>>]
CalendarPath(t) == [route |-> "calendar", token |-> t]

\* The requests of the pipeline: /, /api/calendars/train/Q.ics, .../Q and
\* .../q.ics, all from one address.
Tokens == { <<"Q">> \o Ics, <<"Q">>, <<"q">> \o Ics }
Paths == {IndexPath} \cup {CalendarPath(t) : t \in Tokens}
Callers == {"10.0.0.1"}

\* nyc_train_time::generate_train_ics(train_name): Ok(document) or Err(e).
\* The document is opaque; it is tagged with the line it was produced for.
Document(line, v) == [line |-> line, ver |-> v]
NoDocument == [line |-> <<>>, ver |-> 0]
Errors == {"timeout"}

---------------------------------------------------------------------------
(* Responses *)

NoBody == [kind |-> "none", text |-> <<>>, doc |-> NoDocument, err |-> ""]

\* main.rs:78-85
InvalidBody(name) ==
    [kind |-> "text/plain",
     text |-> <<"Invalid train line: ">> \o name
                 \o <<". Train lines are case-sensitive.">>,
     doc |-> NoDocument, err |-> ""]

\* main.rs:91-96 and main.rs:109-114
CalendarBody(doc) ==
    [kind |-> "text/calendar; charset=utf-8", text |-> <<>>, doc |-> doc, err |-> ""]

\* main.rs:118-122
ErrorBody(e) ==
    [kind |-> "text/plain", text |-> <<"Error generating calendar: ">>,
     doc |-> NoDocument, err |-> e]

\* main.rs:356-361
IndexBody == [kind |-> "text/html; charset=utf-8", text |-> <<>>, doc |-> NoDocument, err |-> ""]

\* The error response of tower_governor.
ThrottledBody == [kind |-> "text/plain", text |-> <<"Too Many Requests">>,
                  doc |-> NoDocument, err |-> ""]

---------------------------------------------------------------------------
(* The cache: moka::future::Cache built at main.rs:22-25 *)

Expired(entry) == entry.age >= TimeToLive

\* A lookup that never finds anything.
cache_get_nothing(k) == [some |-> FALSE, v |-> NoDocument]

\* A lookup of a cache built without time_to_live.
cache_get_stale(k) ==
    IF k \in DOMAIN cache
    THEN [some |-> TRUE, v |-> cache[k].content]
    ELSE [some |-> FALSE, v |-> NoDocument]

\* A lookup that does not look at the key: any entry will do.
cache_get_any(k) ==
    IF DOMAIN cache # {}
    THEN [some |-> TRUE, v |-> cache[CHOOSE x \in DOMAIN cache : TRUE].content]
    ELSE [some |-> FALSE, v |-> NoDocument]

\* Cache::get: the value of a present, unexpired entry.  Reading does not
\* touch the entry: time_to_live counts from the insertion.
cache_get(k) ==
    IF k \in DOMAIN cache /\ ~Expired(cache[k])
    THEN [some |-> TRUE, v |-> cache[k].content]
    ELSE [some |-> FALSE, v |-> NoDocument]

\* max_capacity: an insert of a new key into a full cache makes room first.
MakeRoom(c, k) ==
    IF k \notin DOMAIN c /\ Cardinality(DOMAIN c) >= MaxCapacity
    THEN LET victim == CHOOSE x \in DOMAIN c :
                           \A y \in DOMAIN c : c[y].age <= c[x].age
         IN  [x \in DOMAIN c \ {victim} |-> c[x]]
    ELSE c

\* An insert that leaves an entry that is there alone.
cache_insert_if_absent(k, doc) ==
    IF k \in DOMAIN cache
    THEN cache
    ELSE [x \in DOMAIN cache \cup {k} |->
             IF x = k THEN [content |-> doc, age |-> 0] ELSE cache[x]]

\* Cache::insert: insert or replace, the entry's lifetime starts now.
cache_insert(k, doc) ==
    LET c == MakeRoom(cache, k)
    IN  [x \in DOMAIN c \cup {k} |->
            IF x = k THEN [content |-> doc, age |-> 0] ELSE c[x]]

---------------------------------------------------------------------------
(* The rate limiter: GovernorConfigBuilder at main.rs:30-34 *)

\* A key's bucket holds BurstSize cells; a request takes one cell, and one
\* cell comes back every ReplenishPeriod seconds.  debt is the time until
\* the bucket is full again.
BucketSpan == BurstSize * ReplenishPeriod

\* The limiter's check of one request of a key owing d seconds.
check_key(d) == d + ReplenishPeriod <= BucketSpan

Charge(d) == d + ReplenishPeriod

Replenish(d, dt) == IF d > dt THEN d - dt ELSE 0

---------------------------------------------------------------------------
(* Requests *)

IdleReq ==
    [pc |-> "idle", client |-> "", path |-> IndexPath, permit |-> FALSE,
     status |-> NoStatus, body |-> NoBody, log |-> <<>>]

\* A permit that is forgotten instead of returned.
ReleasePermitLeak(q) == inflight

\* The permit of a request goes back to the semaphore of its route.
ReleasePermit(q) ==
    IF q.permit THEN [inflight EXCEPT ![q.path.route] = @ - 1] ELSE inflight

\* The request's future is over: with a response, or dropped.
Finished(q, status, body, events) ==
    [q EXCEPT !.pc = "done", !.status = status, !.body = body,
              !.permit = FALSE,
              !.log = q.log \o events
                        \o (IF q.permit THEN <<"release">> ELSE <<>>)]

---------------------------------------------------------------------------
(* The tower stack, main.rs:42-48.                                         *)
(*                                                                         *)
(* Router::layer wraps every route on its own: the GovernorLayer instances *)
(* share the one limiter of governor_conf, each ConcurrencyLimit built by  *)
(* ConcurrencyLimitLayer::new(50) owns a semaphore of its own.  A route is *)
(* driven as poll_ready, then call: Governor::poll_ready is the inner      *)
(* ConcurrencyLimit::poll_ready, which takes the permit; Governor::call    *)
(* then asks the limiter, and on refusal answers itself, the permit going  *)
(* back as the service is dropped.                                         *)
(***************************************************************************)

\* A connection delivers a request into a free slot.
Arrive(r, c, p) ==
    /\ req[r].pc = "idle"
    /\ req' = [req EXCEPT ![r] = [IdleReq EXCEPT !.pc = "waiting",
                                                 !.client = c, !.path = p]]
    /\ UNCHANGED <<cache, debt, inflight, background, probe, hist>>

\* The response was delivered (or the connection closed): the slot is free.
Recycle(r) ==
    /\ req[r].pc = "done"
    /\ req' = [req EXCEPT ![r] = IdleReq]
    /\ UNCHANGED <<cache, debt, inflight, background, probe, hist>>

\* A gate that sheds load: no permit left, the request is answered an error.
AcquireOrShed(r) ==
    /\ req[r].pc = "waiting"
    /\ IF inflight[req[r].path.route] < ConcurrencyLimit
       THEN /\ inflight' = [inflight EXCEPT ![req[r].path.route] = @ + 1]
            /\ req' = [req EXCEPT ![r].pc = "ready", ![r].permit = TRUE,
                                  ![r].log = @ \o <<"acquire">>]
       ELSE /\ inflight' = inflight
            /\ req' = [req EXCEPT ![r] =
                          Finished(req[r], INTERNAL_SERVER_ERROR, NoBody, <<"shed">>)]
    /\ UNCHANGED <<cache, debt, background, probe, hist>>

\* ConcurrencyLimit::poll_ready: pending while the semaphore of the route
\* has no permit left.
Acquire(r) ==
    /\ req[r].pc = "waiting"
    /\ inflight[req[r].path.route] < ConcurrencyLimit
    /\ inflight' = [inflight EXCEPT ![req[r].path.route] = @ + 1]
    /\ req' = [req EXCEPT ![r].pc = "ready", ![r].permit = TRUE,
                          ![r].log = @ \o <<"acquire">>]
    /\ UNCHANGED <<cache, debt, background, probe, hist>>

\* Governor::call, the limiter has a cell for the client address.
RateAdmit(r) ==
    /\ req[r].pc = "ready"
    /\ check_key(debt[req[r].client])
    /\ debt' = [debt EXCEPT ![req[r].client] = Charge(@)]
    /\ req' = [req EXCEPT ![r].pc = "handler", ![r].log = @ \o <<"admit">>]
    /\ UNCHANGED <<cache, inflight, background, probe, hist>>

\* A limiter that only observes: the request goes on to the handler.
RateRejectPassThrough(r) ==
    /\ req[r].pc = "ready"
    /\ ~check_key(debt[req[r].client])
    /\ req' = [req EXCEPT ![r].pc = "handler", ![r].log = @ \o <<"admit">>]
    /\ UNCHANGED <<cache, debt, inflight, background, probe, hist>>

\* Governor::call, no cell: 429 without calling the inner service.
RateReject(r) ==
    /\ req[r].pc = "ready"
    /\ ~check_key(debt[req[r].client])
    /\ req' = [req EXCEPT ![r] =
                  Finished(req[r], TOO_MANY_REQUESTS, ThrottledBody, <<"reject">>)]
    /\ inflight' = ReleasePermit(req[r])
    /\ UNCHANGED <<cache, debt, background, probe, hist>>

---------------------------------------------------------------------------
(* The handlers *)

\* handle_index, main.rs:127-362.
HandleIndex(r) ==
    /\ req[r].pc = "handler"
    /\ req[r].path.route = "index"
    /\ req' = [req EXCEPT ![r] = Finished(req[r], OK, IndexBody, <<"respond">>)]
    /\ inflight' = ReleasePermit(req[r])
    /\ UNCHANGED <<cache, debt, background, probe, hist>>

\* A handler that reports the path token as it came, suffix included.
HandleInvalidRaw(r) ==
    /\ req[r].pc = "handler"
    /\ req[r].path.route = "calendar"
    /\ ~IsValidTrain(req[r].path.token)
    /\ req' = [req EXCEPT ![r] =
                  Finished(req[r], BAD_REQUEST, InvalidBody(req[r].path.token),
                           <<"invalid", "respond">>)]
    /\ inflight' = ReleasePermit(req[r])
    /\ UNCHANGED <<cache, debt, background, probe, hist>>

\* handle_train_calendar, main.rs:70-86: the token is not a train line.
HandleInvalid(r) ==
    /\ req[r].pc = "handler"
    /\ req[r].path.route = "calendar"
    /\ ~IsValidTrain(req[r].path.token)
    /\ req' = [req EXCEPT ![r] =
                  Finished(req[r], BAD_REQUEST,
                           InvalidBody(StripIcs(req[r].path.token)),
                           <<"invalid", "respond">>)]
    /\ inflight' = ReleasePermit(req[r])
    /\ UNCHANGED <<cache, debt, background, probe, hist>>

\* handle_train_calendar, main.rs:88-97: the cache has the line.
HandleHit(r) ==
    /\ req[r].pc = "handler"
    /\ req[r].path.route = "calendar"
    /\ IsValidTrain(req[r].path.token)
    /\ LET got == cache_get(StripIcs(req[r].path.token))
       IN  /\ got.some
           /\ req' = [req EXCEPT ![r] =
                         Finished(req[r], OK, CalendarBody(got.v),
                                  <<"valid", "lookup", "hit", "respond">>)]
    /\ inflight' = ReleasePermit(req[r])
    /\ UNCHANGED <<cache, debt, background, probe, hist>>

\* A handler with single-flight: a miss joins the upstream call that is
\* already under way for the line instead of starting one.
HandleMissSingleFlight(r) ==
    /\ req[r].pc = "handler"
    /\ req[r].path.route = "calendar"
    /\ IsValidTrain(req[r].path.token)
    /\ ~cache_get(StripIcs(req[r].path.token)).some
    /\ req' = [req EXCEPT
                 ![r].pc = "fetching",
                 ![r].log = @ \o
                    (IF \E q \in Slots \ {r} :
                           /\ req[q].pc = "fetching"
                           /\ StripIcs(req[q].path.token) = StripIcs(req[r].path.token)
                     THEN <<"valid", "lookup", "miss", "join">>
                     ELSE <<"valid", "lookup", "miss", "fetch">>)]
    /\ UNCHANGED <<cache, debt, inflight, background, probe, hist>>

\* handle_train_calendar, main.rs:88-101: a miss, the upstream call starts.
HandleMiss(r) ==
    /\ req[r].pc = "handler"
    /\ req[r].path.route = "calendar"
    /\ IsValidTrain(req[r].path.token)
    /\ ~cache_get(StripIcs(req[r].path.token)).some
    /\ req' = [req EXCEPT ![r].pc = "fetching",
                          ![r].log = @ \o <<"valid", "lookup", "miss", "fetch">>]
    /\ UNCHANGED <<cache, debt, inflight, background, probe, hist>>

\* A handler that keys the cache by the path token as it came.
FetchOkRawKey(r, v) ==
    /\ req[r].pc = "fetching"
    /\ LET doc == Document(StripIcs(req[r].path.token), v)
       IN  /\ cache' = cache_insert(req[r].path.token, doc)
           /\ req' = [req EXCEPT ![r] =
                         Finished(req[r], OK, CalendarBody(doc),
                                  <<"fetch_ok", "insert", "respond">>)]
    /\ inflight' = ReleasePermit(req[r])
    /\ UNCHANGED <<debt, background, probe, hist>>

\* main.rs:102-115: upstream answered Ok(ics_content).
FetchOk(r, v) ==
    /\ req[r].pc = "fetching"
    /\ LET line == StripIcs(req[r].path.token)
           doc == Document(line, v)
       IN  /\ cache' = cache_insert(line, doc)
           /\ req' = [req EXCEPT ![r] =
                         Finished(req[r], OK, CalendarBody(doc),
                                  <<"fetch_ok", "insert", "respond">>)]
    /\ inflight' = ReleasePermit(req[r])
    /\ UNCHANGED <<debt, background, probe, hist>>

\* A handler that calls upstream again after a failure.
FetchErrRetry(r, e) ==
    /\ req[r].pc = "fetching"
    /\ req' = [req EXCEPT ![r].log = @ \o <<"fetch_err", "fetch">>]
    /\ UNCHANGED <<cache, debt, inflight, background, probe, hist>>

\* A handler that remembers the failure in the cache.
FetchErrCached(r, e) ==
    /\ req[r].pc = "fetching"
    /\ req' = [req EXCEPT ![r] =
                  Finished(req[r], INTERNAL_SERVER_ERROR, ErrorBody(e),
                           <<"fetch_err", "respond">>)]
    /\ cache' = cache_insert(StripIcs(req[r].path.token), NoDocument)
    /\ inflight' = ReleasePermit(req[r])
    /\ UNCHANGED <<debt, background, probe, hist>>

\* A handler that swallows the failure: the request ends, nothing is sent.
FetchErrSilent(r, e) ==
    /\ req[r].pc = "fetching"
    /\ req' = [req EXCEPT ![r] = Finished(req[r], NoStatus, NoBody, <<"fetch_err">>)]
    /\ inflight' = ReleasePermit(req[r])
    /\ UNCHANGED <<cache, debt, background, probe, hist>>

\* main.rs:116-123: upstream answered Err(e).
FetchErr(r, e) ==
    /\ req[r].pc = "fetching"
    /\ req' = [req EXCEPT ![r] =
                  Finished(req[r], INTERNAL_SERVER_ERROR, ErrorBody(e),
                           <<"fetch_err", "respond">>)]
    /\ inflight' = ReleasePermit(req[r])
    /\ UNCHANGED <<cache, debt, background, probe, hist>>

\* The client goes away while the request is suspended (on the semaphore,
\* or on the upstream call): its future is dropped, and with it the permit.
Disconnect(r) ==
    /\ req[r].pc \in {"waiting", "fetching"}
    /\ req' = [req EXCEPT ![r] = Finished(req[r], NoStatus, NoBody, <<"drop">>)]
    /\ inflight' = ReleasePermit(req[r])
    /\ UNCHANGED <<cache, debt, background, probe, hist>>

---------------------------------------------------------------------------
(* Time and housekeeping *)

\* dt seconds pass.  An age is kept up to TimeToLive: beyond it an entry
\* is expired whatever its age.
Advance(dt) ==
    /\ cache' = [k \in DOMAIN cache |->
                    [cache[k] EXCEPT !.age =
                        IF @ + dt >= TimeToLive THEN TimeToLive ELSE @ + dt]]
    /\ debt' = [c \in Clients |-> Replenish(debt[c], dt)]
    /\ hist' = [c \in Clients |-> [hist[c] EXCEPT !.recent = 0]]
    /\ UNCHANGED <<req, inflight, background, probe>>

TickPeriod == Advance(ReplenishPeriod)

TickSecond == Advance(1)

\* moka's housekeeping removes an expired entry.
Evict(k) ==
    /\ k \in DOMAIN cache
    /\ Expired(cache[k])
    /\ cache' = [x \in DOMAIN cache \ {k} |-> cache[x]]
    /\ UNCHANGED <<req, debt, inflight, background, probe, hist>>

---------------------------------------------------------------------------
(* The pipeline *)

NoProbe == [kind |-> "none"]

InitCommon ==
    /\ req = [r \in Slots |-> IdleReq]
    /\ cache = << >>
    /\ probe = NoProbe
    /\ hist = [c \in Clients |-> [recent |-> 0, steady |-> TRUE]]

Init ==
    /\ InitCommon
    /\ debt = [c \in Clients |-> 0]
    /\ inflight = [x \in Routes |-> 0]
    /\ background = 0

Serve(r) ==
    \/ Acquire(r)
    \/ RateAdmit(r)
    \/ RateReject(r)
    \/ HandleIndex(r)
    \/ HandleInvalid(r)
    \/ HandleHit(r)
    \/ HandleMiss(r)
    \/ \E v \in 1..NumVersions : FetchOk(r, v)
    \/ \E e \in Errors : FetchErr(r, e)
    \/ Disconnect(r)

Next ==
    \/ \E r \in Slots, c \in Callers, p \in Paths : Arrive(r, c, p)
    \/ \E r \in Slots : Serve(r)
    \/ \E r \in Slots : Recycle(r)
    \/ TickPeriod
    \/ \E k \in DOMAIN cache : Evict(k)

Spec == Init /\ [][Next]_vars

---------------------------------------------------------------------------
(* Untracked load: calendar requests suspended on the upstream call that   *)
(* hold permits of the calendar route and are not followed slot by slot.   *)

\* One of them completes with Ok: main.rs:102-115.
BgFinishOk(t, v) ==
    /\ background > 0
    /\ IsValidTrain(t)
    /\ background' = background - 1
    /\ inflight' = [inflight EXCEPT !["calendar"] = @ - 1]
    /\ cache' = cache_insert(StripIcs(t), Document(StripIcs(t), v))
    /\ UNCHANGED <<req, debt, probe, hist>>

\* One of them completes with Err, or its client went away: main.rs:116-123.
BgFinishErr ==
    /\ background > 0
    /\ background' = background - 1
    /\ inflight' = [inflight EXCEPT !["calendar"] = @ - 1]
    /\ UNCHANGED <<req, cache, debt, probe, hist>>

\* The server under load: all permits of the calendar route but one are
\* held by untracked requests, the caller's bucket is full or empty.
InitGate ==
    /\ InitCommon
    /\ debt \in [Clients -> {0, BucketSpan}]
    /\ background = ConcurrencyLimit - 1
    /\ inflight = [x \in Routes |-> IF x = "calendar" THEN background ELSE 0]

NextGate ==
    \/ \E r \in Slots, c \in Callers, p \in Paths : Arrive(r, c, p)
    \/ \E r \in Slots : Serve(r)
    \/ \E t \in Tokens, v \in 1..NumVersions : BgFinishOk(t, v)
    \/ BgFinishErr

SpecGate == InitGate /\ [][NextGate]_vars

---------------------------------------------------------------------------
(* The full gate: all 50 permits of the calendar route are held by         *)
(* requests awaiting upstream when the caller's requests arrive.           *)

\* ConcurrencyLimit::poll_ready finds no permit: the request is parked on
\* the semaphore (Poll::Pending), nothing is answered.
Pend(r) ==
    /\ req[r].pc = "waiting"
    /\ inflight[req[r].path.route] >= ConcurrencyLimit
    /\ \A i \in 1..Len(req[r].log) : req[r].log[i] # "pending"
    /\ req' = [req EXCEPT ![r].log = @ \o <<"pending">>]
    /\ UNCHANGED <<cache, debt, inflight, background, probe, hist>>

InitQueue ==
    /\ InitCommon
    /\ \E d \in {0, BucketSpan} :
          debt = [c \in Clients |-> IF c \in Callers THEN d ELSE 0]
    /\ background = ConcurrencyLimit
    /\ inflight = [x \in Routes |-> IF x = "calendar" THEN background ELSE 0]

\* The untracked requests whose upstream call returns while the caller's
\* requests are followed: as many as there are slots, the others stay
\* suspended for longer than that.
BgFinish ==
    /\ background > ConcurrencyLimit - NumReq
    /\ \/ \E t \in Tokens, v \in 1..NumVersions : BgFinishOk(t, v)
       \/ BgFinishErr

\* What a request does without its client: every step but Disconnect.
Progress(r) ==
    \/ Acquire(r)
    \/ RateAdmit(r)
    \/ RateReject(r)
    \/ HandleIndex(r)
    \/ HandleInvalid(r)
    \/ HandleHit(r)
    \/ HandleMiss(r)
    \/ \E v \in 1..NumVersions : FetchOk(r, v)
    \/ \E e \in Errors : FetchErr(r, e)

NextQueue ==
    \/ \E r \in Slots, c \in Callers, p \in Paths : Arrive(r, c, p)
    \/ \E r \in Slots : Pend(r)
    \/ \E r \in Slots : Progress(r)
    \/ \E r \in Slots : Disconnect(r)
    \/ BgFinish

\* The runtime polls every task that can go on, the semaphore wakes its
\* waiters when a permit returns, and every upstream call returns.
SpecQueue ==
    /\ InitQueue
    /\ [][NextQueue]_vars
    /\ \A r \in Slots : WF_vars(Progress(r))
    /\ WF_vars(BgFinish)

---------------------------------------------------------------------------
(* The pipeline with requests for two lines, within one lifetime of the    *)
(* cache entries: /, Q, Q.ics, q.ics and 7.ics.                            *)

LinePaths == Paths \cup {CalendarPath(<<"7">> \o Ics)}

NextLines ==
    \/ \E r \in Slots, c \in Callers, p \in LinePaths : Arrive(r, c, p)
    \/ \E r \in Slots : Serve(r)
    \/ \E r \in Slots : Recycle(r)

SpecLines == Init /\ [][NextLines]_vars

---------------------------------------------------------------------------
(* The line validator on its own: main.rs:70-77 over generated tokens *)

Alphabet ==
    {"A", "C", "E", "B", "D", "F", "M", "G", "J", "Z", "L", "N", "Q", "R", "W",
     "1", "2", "3", "4", "5", "6", "7", "S", "I", "q", "s", "i", "."}

Stems == UNION {[1..n -> Alphabet] : n \in 0..MaxStem}

Suffixes == { <<>>, Ics, Ics \o Ics, <<".", "I", "C", "S">>, <<".", "i", "c">> }

InitValidate ==
    /\ req = [r \in Slots |-> IdleReq]
    /\ cache = << >>
    /\ hist = [c \in Clients |-> [recent |-> 0, steady |-> TRUE]]
    /\ debt = [c \in Clients |-> 0]
    /\ inflight = [x \in Routes |-> 0]
    /\ background = 0
    /\ probe \in {[kind |-> "token", token |-> stem \o suffix, checked |-> FALSE,
                    name |-> <<>>, valid |-> FALSE] :
                      stem \in Stems, suffix \in Suffixes}

\* main.rs:70 and main.rs:77 applied to the token.
Validate ==
    /\ probe.kind = "token"
    /\ ~probe.checked
    /\ probe' = [probe EXCEPT !.checked = TRUE,
                              !.name = StripIcs(probe.token),
                              !.valid = IsValidTrain(probe.token)]
    /\ UNCHANGED <<req, cache, debt, inflight, background, hist>>

NextValidate == Validate

SpecValidate == InitValidate /\ [][NextValidate]_vars

---------------------------------------------------------------------------
(* The rate limiter on its own, second by second: main.rs:30-34, 44-46 *)

\* A limiter with one bucket for everybody: a cell taken is taken from all.
CheckKeyShared(c) ==
    /\ probe' = [kind |-> "check", client |-> c, admitted |-> check_key(debt[c])]
    /\ debt' = IF check_key(debt[c])
               THEN [x \in Clients |-> Charge(debt[c])]
               ELSE debt
    /\ hist' = [hist EXCEPT ![c] = [recent |-> 1,
                                    steady |-> @.steady /\ @.recent = 0]]
    /\ UNCHANGED <<req, cache, inflight, background>>

\* A request of client c reaches Governor::call.  hist notes whether the
\* client has kept to one request per second at most.
CheckKey(c) ==
    /\ probe' = [kind |-> "check", client |-> c, admitted |-> check_key(debt[c])]
    /\ debt' = IF check_key(debt[c]) THEN [debt EXCEPT ![c] = Charge(@)] ELSE debt
    /\ hist' = [hist EXCEPT ![c] = [recent |-> 1,
                                    steady |-> @.steady /\ @.recent = 0]]
    /\ UNCHANGED <<req, cache, inflight, background>>

NextRate ==
    \/ \E c \in Clients : CheckKey(c)
    \/ TickSecond

SpecRate == Init /\ [][NextRate]_vars

---------------------------------------------------------------------------
(* A token with and without the suffix: main.rs:70-77 applied to t, to     *)
(* t followed by ".ics", and main.rs:70 applied to its own result.         *)

NoVerdict == [checked |-> FALSE, name |-> <<>>, valid |-> FALSE]

\* main.rs:70 and main.rs:77 for one path token.
Verdict(t) == [checked |-> TRUE, name |-> StripIcs(t), valid |-> IsValidTrain(t)]

InitSuffix ==
    /\ req = [r \in Slots |-> IdleReq]
    /\ cache = << >>
    /\ hist = [c \in Clients |-> [recent |-> 0, steady |-> TRUE]]
    /\ debt = [c \in Clients |-> 0]
    /\ inflight = [x \in Routes |-> 0]
    /\ background = 0
    /\ probe \in {[kind |-> "pair", token |-> stem \o suffix,
                    bare |-> NoVerdict, dotted |-> NoVerdict,
                    again |-> NoVerdict] :
                      stem \in Stems, suffix \in Suffixes}

\* The request for .../t
ValidateBare ==
    /\ probe.kind = "pair"
    /\ ~probe.bare.checked
    /\ probe' = [probe EXCEPT !.bare = Verdict(probe.token)]
    /\ UNCHANGED <<req, cache, debt, inflight, background, hist>>

\* The request for .../t.ics
ValidateDotted ==
    /\ probe.kind = "pair"
    /\ ~probe.dotted.checked
    /\ probe' = [probe EXCEPT !.dotted = Verdict(probe.token \o Ics)]
    /\ UNCHANGED <<req, cache, debt, inflight, background, hist>>

\* The name the handler derived from t, sent as a path token of its own.
ValidateAgain ==
    /\ probe.kind = "pair"
    /\ probe.bare.checked
    /\ ~probe.again.checked
    /\ probe' = [probe EXCEPT !.again = Verdict(probe.bare.name)]
    /\ UNCHANGED <<req, cache, debt, inflight, background, hist>>

NextSuffix ==
    \/ ValidateBare
    \/ ValidateDotted
    \/ ValidateAgain

SpecSuffix == InitSuffix /\ [][NextSuffix]_vars

---------------------------------------------------------------------------
(* What the claims speak of *)

\* The 24 identifiers as the specification lists them.
ClaimedLines ==
    { <<"A">>, <<"C">>, <<"E">>, <<"B">>, <<"D">>, <<"F">>, <<"M">>, <<"G">>,
      <<"J">>, <<"Z">>, <<"L">>, <<"N">>, <<"Q">>, <<"R">>, <<"W">>, <<"1">>,
      <<"2">>, <<"3">>, <<"4">>, <<"5">>, <<"6">>, <<"7">>, <<"S">>, <<"S", "I">> }

\* Token t names line x: it is x, or x followed by ".ics".
Names(t, x) == t = x \/ t = x \o Ics

Acceptable(t) == \E x \in ClaimedLines : Names(t, x)

Count(log, e) == Cardinality({i \in 1..Len(log) : log[i] = e})

Has(log, e) == \E i \in 1..Len(log) : log[i] = e

\* The step in which the handler of slot r runs up to its answer or up to
\* the upstream call.
HandlerStep(r) == req[r].pc = "handler" /\ req'[r].pc # "handler"

\* The entry of line x, if it has one that has not expired.
FreshEntry(x) == x \in DOMAIN cache /\ cache[x].age < TimeToLive

NoHandlerEvent(log) ==
    \A e \in {"valid", "invalid", "lookup", "hit", "miss", "fetch", "insert"} :
        ~Has(log, e)

---------------------------------------------------------------------------
(* C1: a token is accepted by validation if and only if it is one of the   *)
(* 24 listed identifiers, exactly and case-sensitively, optionally         *)
(* followed by one ".ics"; every other token is rejected.                  *)
C1_AcceptedIffListed ==
    probe.kind = "token" /\ probe.checked
        => (probe.valid <=> Acceptable(probe.token))

C1_Witness ==
    /\ probe.kind = "token" /\ probe.checked
    /\ probe.token = <<"S", "I">> \o Ics
    /\ probe.valid

---------------------------------------------------------------------------
(* C2: once a fetch for line X has answered 200 and its document is in the *)
(* cache, a request for X handled less than 30 seconds after the insertion *)
(* answers 200 with that same document and calls upstream no more.         *)
C2_FreshEntryServedWithoutFetch ==
    [][\A r \in Slots, x \in ClaimedLines :
        /\ (/\ req[r].pc = "fetching"
            /\ Names(req[r].path.token, x)
            /\ req'[r].status = OK)
           => /\ x \in DOMAIN cache'
              /\ cache'[x] = [content |-> req'[r].body.doc, age |-> 0]
              /\ Count(req'[r].log, "fetch") = 1
        /\ (/\ HandlerStep(r)
            /\ req[r].path.route = "calendar"
            /\ Names(req[r].path.token, x)
            /\ FreshEntry(x))
           => /\ req'[r].status = OK
              /\ req'[r].body = CalendarBody(cache[x].content)
              /\ ~Has(req'[r].log, "fetch")
              /\ req'[r].pc = "done"
    ]_vars

C2_Witness ==
    \E r \in Slots :
        /\ req[r].pc = "done" /\ req[r].status = OK
        /\ req[r].path.token = <<"Q">> \o Ics
        /\ Has(req[r].log, "hit")
        /\ <<"Q">> \in DOMAIN cache
        /\ cache[<<"Q">>].age = 20
        /\ req[r].body.doc = cache[<<"Q">>].content

---------------------------------------------------------------------------
(* C3: when the upstream fetch fails the request ends with 500, the cache  *)
(* is exactly as before (the failure is not cached), and a request for the *)
(* line that finds no unexpired entry calls upstream again.                *)
C3_FailureNotCached ==
    [][\A r \in Slots :
        /\ (Has(req'[r].log, "fetch_err") /\ ~Has(req[r].log, "fetch_err"))
           => /\ req'[r].status = INTERNAL_SERVER_ERROR
              /\ req'[r].body.err \in Errors
              /\ cache' = cache
        /\ \A x \in ClaimedLines :
             (/\ HandlerStep(r)
              /\ req[r].path.route = "calendar"
              /\ Names(req[r].path.token, x)
              /\ ~FreshEntry(x))
             => /\ req'[r].pc = "fetching"
                /\ Count(req'[r].log, "fetch") = 1
    ]_vars

C3_Witness ==
    \E r1, r2 \in Slots :
        /\ req[r1].status = INTERNAL_SERVER_ERROR
        /\ req[r1].path.token = <<"Q">>
        /\ req[r2].pc = "fetching"
        /\ req[r2].path.token = <<"Q">>
        /\ cache = << >>

---------------------------------------------------------------------------
(* C4: a client address that stays strictly below 10 requests per second   *)
(* (here: at most one request in any second) and within the burst of 20 is *)
(* never rejected by the rate limiter, whatever other clients do.          *)
C4_SteadyClientNeverRejected ==
    (probe.kind = "check" /\ hist[probe.client].steady) => probe.admitted

---------------------------------------------------------------------------
(* C5: a request that finds no cell for its client address is answered     *)
(* 429 and reaches neither validation, nor the cache, nor upstream, valid  *)
(* line or not; the cache is unchanged by it.                              *)
C5_ThrottledStopsAtTheGate ==
    [][\A r \in Slots :
        (/\ req[r].pc = "ready"
         /\ req'[r] # req[r]
         /\ debt[req[r].client] > (BurstSize - 1) * ReplenishPeriod)
        => /\ req'[r].pc = "done"
           /\ req'[r].status = TOO_MANY_REQUESTS
           /\ NoHandlerEvent(req'[r].log)
           /\ cache' = cache
           /\ debt' = debt
    ]_vars

C5_Witness ==
    \E r \in Slots :
        /\ req[r].status = TOO_MANY_REQUESTS
        /\ req[r].path.token = <<"Q">> \o Ics
        /\ <<"Q">> \in DOMAIN cache

---------------------------------------------------------------------------
(* C6: in every reachable state the number of requests executing past the  *)
(* concurrency gate is at least 0 and at most the ceiling of 50.           *)
Executing == {r \in Slots : req[r].permit /\ req[r].pc \in {"handler", "fetching"}}

C6_InFlightWithinCeiling ==
    /\ \A x \in Routes : inflight[x] >= 0
    /\ background + Cardinality(Executing) <= ConcurrencyLimit

---------------------------------------------------------------------------
(* C7: a permit that a request acquires is released exactly once on every  *)
(* way out (200 from the cache, 200 after the fetch, 400, 500, 429, client *)
(* gone), so that the counters are back to zero once all requests ended.   *)
Holders(x) == {r \in Slots : req[r].permit /\ req[r].path.route = x}

C7_PermitReleasedExactlyOnce ==
    /\ \A x \in Routes :
          inflight[x] = Cardinality(Holders(x))
                          + (IF x = "calendar" THEN background ELSE 0)
    /\ \A r \in Slots :
          /\ Count(req[r].log, "acquire") <= 1
          /\ req[r].permit <=> req[r].pc \in {"ready", "handler", "fetching"}
          /\ req[r].pc = "done"
                => Count(req[r].log, "release") = Count(req[r].log, "acquire")
    /\ (\A r \in Slots : req[r].pc \in {"idle", "done"}) /\ background = 0
          => \A x \in Routes : inflight[x] = 0

C7_Witness ==
    \E r1, r2 \in Slots :
        /\ req[r1].pc = "done" /\ req[r1].status = INTERNAL_SERVER_ERROR
        /\ Count(req[r1].log, "release") = 1
        /\ req[r2].pc = "done" /\ req[r2].status = NoStatus
        /\ Has(req[r2].log, "fetch") /\ Has(req[r2].log, "drop")
        /\ Count(req[r2].log, "release") = 1
        /\ \A x \in Routes : inflight[x] = 0

---------------------------------------------------------------------------
(* C8: a lookup never returns a document inserted 30 seconds or more       *)
(* before it: the age of an entry counts from its insertion, a hit does    *)
(* not renew it, and an expired entry that is still stored is a miss.      *)
C8_ExpiredEntryIsAMiss ==
    [][/\ \A r \in Slots, x \in ClaimedLines :
            (/\ HandlerStep(r)
             /\ req[r].path.route = "calendar"
             /\ Names(req[r].path.token, x))
            => /\ Has(req'[r].log, "hit")
                    => /\ x \in DOMAIN cache
                       /\ cache[x].age < TimeToLive
                       /\ req'[r].body.doc = cache[x].content
               /\ (x \in DOMAIN cache /\ cache[x].age >= TimeToLive)
                    => /\ req'[r].pc = "fetching"
                       /\ ~Has(req'[r].log, "hit")
               /\ cache' = cache
       /\ \A x \in DOMAIN cache \cap DOMAIN cache' :
            cache'[x].age < cache[x].age
            => \E r \in Slots : /\ req[r].pc = "fetching"
                                 /\ Names(req[r].path.token, x)
                                 /\ Has(req'[r].log, "insert")
    ]_vars

C8_Witness ==
    \E r \in Slots :
        /\ req[r].pc = "fetching"
        /\ req[r].path.token = <<"Q">>
        /\ <<"Q">> \in DOMAIN cache
        /\ cache[<<"Q">>].age = TimeToLive
        /\ \A q \in Slots \ {r} : req[q].pc = "idle"

---------------------------------------------------------------------------
(* C9: a request calls upstream at most once, and only after it was        *)
(* admitted, validated and missed the cache; a request that hits the       *)
(* cache, is invalid or is throttled never calls it, and a failed call is  *)
(* not repeated.                                                           *)
C9_AtMostOneFetchAfterMiss ==
    \A r \in Slots :
        /\ Count(req[r].log, "fetch") <= 1
        /\ Has(req[r].log, "fetch")
             => /\ Len(req[r].log) >= 6
                /\ SubSeq(req[r].log, 1, 6)
                     = <<"acquire", "admit", "valid", "lookup", "miss", "fetch">>
                /\ Acceptable(req[r].path.token)
        /\ req[r].pc = "fetching" => Has(req[r].log, "fetch")
        /\ (\/ Has(req[r].log, "hit")
            \/ req[r].status \in {BAD_REQUEST, TOO_MANY_REQUESTS}
            \/ req[r].path.route = "index")
             => ~Has(req[r].log, "fetch")
        /\ Has(req[r].log, "fetch_err")
             => req[r].pc = "done" /\ req[r].status = INTERNAL_SERVER_ERROR

C9_Witness ==
    \E r \in Slots :
        /\ req[r].pc = "done"
        /\ req[r].status = INTERNAL_SERVER_ERROR
        /\ Count(req[r].log, "fetch") = 1

---------------------------------------------------------------------------
(* C10: a request whose token fails validation ends with 400 and a         *)
(* plain-text body that names the token as it is without its ".ics" and    *)
(* notes case sensitivity; it makes no lookup, insert or fetch and leaves  *)
(* the cache unchanged.                                                    *)
WithoutIcs(t) ==
    IF \E n \in 0..Len(t) : t = SubSeq(t, 1, n) \o Ics
    THEN SubSeq(t, 1, CHOOSE n \in 0..Len(t) : t = SubSeq(t, 1, n) \o Ics)
    ELSE t

C10_InvalidTokenNamedIn400 ==
    [][\A r \in Slots :
        (/\ HandlerStep(r)
         /\ req[r].path.route = "calendar"
         /\ ~Acceptable(req[r].path.token))
        => /\ req'[r].pc = "done"
           /\ req'[r].status = BAD_REQUEST
           /\ req'[r].body.kind = "text/plain"
           /\ req'[r].body.text
                = <<"Invalid train line: ">> \o WithoutIcs(req[r].path.token)
                    \o <<". Train lines are case-sensitive.">>
           /\ \A e \in {"lookup", "hit", "miss", "fetch", "insert"} :
                 ~Has(req'[r].log, e)
           /\ cache' = cache
    ]_vars

C10_Witness ==
    \E r \in Slots :
        /\ req[r].status = BAD_REQUEST
        /\ req[r].path.token = <<"q">> \o Ics
        /\ req[r].body.text
             = <<"Invalid train line: ", "q", ". Train lines are case-sensitive.">>
        /\ <<"Q">> \in DOMAIN cache

---------------------------------------------------------------------------
(* C11: a token t that does not itself end in ".ics" and t followed by     *)
(* ".ics" have the same validation outcome and the same name; stripping    *)
(* takes exactly one trailing ".ics" off (the name of t.ics is t, whatever *)
(* t is), leaves a token without that suffix as it is, and takes off no    *)
(* other suffix.                                                           *)
EndsWithIcs(t) ==
    Len(t) >= 4 /\ t[Len(t) - 3] = "." /\ t[Len(t) - 2] = "i"
                /\ t[Len(t) - 1] = "c" /\ t[Len(t)] = "s"

C11_OneSuffixStripped ==
    (probe.kind = "pair" /\ probe.bare.checked /\ probe.dotted.checked
                        /\ probe.again.checked)
    => /\ probe.dotted.name = probe.token
       /\ probe.bare.name \o (IF EndsWithIcs(probe.token) THEN Ics ELSE <<>>)
            = probe.token
       /\ ~EndsWithIcs(probe.token)
            => /\ probe.bare.valid = probe.dotted.valid
               /\ probe.bare.name = probe.dotted.name
               /\ probe.again = probe.bare
       /\ ~EndsWithIcs(probe.bare.name) => probe.again.name = probe.bare.name

C11_Witness ==
    /\ probe.kind = "pair" /\ probe.again.checked /\ probe.dotted.checked
    /\ probe.token = <<"S", "I">>
    /\ probe.bare.valid /\ probe.dotted.valid
    /\ probe.dotted.name = <<"S", "I">>

\* C11 as stated: for every token t, t and t followed by ".ics" have the
\* same validation outcome, and stripping a stripped token changes nothing.
C11_SuffixedAndBareAgree ==
    (probe.kind = "pair" /\ probe.bare.checked /\ probe.dotted.checked
                        /\ probe.again.checked)
    => /\ probe.bare.valid = probe.dotted.valid
       /\ probe.again.name = probe.bare.name

---------------------------------------------------------------------------
(* C12: an insert of document c for line X leaves X with the one entry c,  *)
(* of age 0, whether X had an entry or not, and touches no other entry;    *)
(* the content of an entry changes by an insert only, and a lookup that    *)
(* hits returns the content of the entry; no line has two entries.         *)
Inserts(r) == req[r].pc = "fetching" /\ Has(req'[r].log, "insert")

EntriesOf(x) == {k \in DOMAIN cache : Names(k, x)}

C12_ReadAfterWrite ==
    [][/\ \A r \in Slots, x \in ClaimedLines :
            /\ (Inserts(r) /\ Names(req[r].path.token, x))
               => /\ DOMAIN cache' = DOMAIN cache \cup {x}
                  /\ cache'[x] = [content |-> req'[r].body.doc, age |-> 0]
                  /\ req'[r].body.doc.line = x
                  /\ \A y \in DOMAIN cache \ {x} : cache'[y] = cache[y]
                  /\ cache_get(x)' = [some |-> TRUE, v |-> req'[r].body.doc]
            /\ (/\ HandlerStep(r)
                /\ Names(req[r].path.token, x)
                /\ req[r].path.route = "calendar"
                /\ Has(req'[r].log, "hit"))
               => req'[r].body.doc = cache[x].content
       /\ \A x \in DOMAIN cache \cap DOMAIN cache' :
            cache'[x].content # cache[x].content
            => \E r \in Slots : Inserts(r) /\ Names(req[r].path.token, x)
       /\ \A x \in ClaimedLines : Cardinality(EntriesOf(x)') <= 1
    ]_vars

C12_Witness ==
    \E r1, r2 \in Slots :
        /\ req[r1].pc = "done" /\ Has(req[r1].log, "insert")
        /\ req[r2].pc = "done" /\ Has(req[r2].log, "insert")
        /\ req[r1].path.token = <<"Q">> /\ req[r2].path.token = <<"Q">> \o Ics
        /\ req[r1].body.doc = Document(<<"Q">>, 1)
        /\ req[r2].body.doc = Document(<<"Q">>, 2)
        /\ DOMAIN cache = { <<"Q">> }
        /\ cache[<<"Q">>] = [content |-> Document(<<"Q">>, 2), age |-> 0]

---------------------------------------------------------------------------
(* C14: the rate limiter is asked before the concurrency gate: a request   *)
(* that is answered 429 has never acquired, awaited or held a permit, and  *)
(* the step that rejects it leaves the counters of the gate as they were.  *)
C14_ThrottledNeverTakesASlot ==
    [][\A r \in Slots :
        (req'[r].status = TOO_MANY_REQUESTS /\ req[r].status # TOO_MANY_REQUESTS)
        => /\ ~Has(req'[r].log, "acquire")
           /\ ~req[r].permit
           /\ inflight' = inflight
    ]_vars

---------------------------------------------------------------------------
---------------------------------------------------------------------------
(* C16: there is no single-flight: a request for line X that misses the    *)
(* cache starts its own upstream call also while another request's call    *)
(* for X is under way; each of the two calls that succeeds answers 200     *)
(* with its own document and overwrites the entry of X, a fresh one        *)
(* included, so that the cache holds the document of the latest insert;    *)
(* the other request's call goes on untouched.                             *)
FetchingFor(x) ==
    {r \in Slots : req[r].pc = "fetching" /\ Names(req[r].path.token, x)}

C16_NoSingleFlight ==
    [][\A r \in Slots, x \in ClaimedLines :
        /\ (/\ HandlerStep(r)
            /\ req[r].path.route = "calendar"
            /\ Names(req[r].path.token, x)
            /\ ~FreshEntry(x)
            /\ FetchingFor(x) # {})
           => /\ req'[r].pc = "fetching"
              /\ Count(req'[r].log, "fetch") = 1
              /\ FetchingFor(x)' = FetchingFor(x) \cup {r}
        /\ (/\ r \in FetchingFor(x)
            /\ Has(req'[r].log, "fetch_ok")
            /\ FetchingFor(x) \ {r} # {})
           => /\ req'[r].status = OK
              /\ req'[r].body = CalendarBody(cache'[x].content)
              /\ cache'[x].age = 0
              /\ \A q \in FetchingFor(x) \ {r} : req'[q] = req[q]
    ]_vars

C16_Witness ==
    \E r1, r2 \in Slots :
        /\ req[r1].pc = "done" /\ req[r1].status = OK
        /\ req[r1].path.token = <<"Q">> \o Ics
        /\ Has(req[r1].log, "fetch") /\ Has(req[r1].log, "insert")
        /\ req[r1].body.doc = Document(<<"Q">>, 1)
        /\ <<"Q">> \in DOMAIN cache
        /\ cache[<<"Q">>] = [content |-> Document(<<"Q">>, 1), age |-> 0]
        /\ req[r2].pc = "fetching"
        /\ req[r2].path.token = <<"Q">> \o Ics
        /\ Has(req[r2].log, "fetch")

---------------------------------------------------------------------------
(* C17: every request to the calendar endpoint ends, when its upstream     *)
(* call returns and the scheduling is fair; unless its client went away    *)
(* before, it ends with exactly one answer, which is 200 with a            *)
(* text/calendar document, 400, 500 with the upstream error, or 429;       *)
(* nothing is answered before the end and nothing after it.                *)
Answers(q) == Count(q.log, "respond") + Count(q.log, "reject")

Outcome(q) ==
    \/ /\ q.status = OK
       /\ q.body.kind = "text/calendar; charset=utf-8"
       /\ q.body.doc # NoDocument
       /\ q.body.doc.line = StripIcs(q.path.token)
    \/ /\ q.status = BAD_REQUEST
       /\ q.body.kind = "text/plain"
    \/ /\ q.status = INTERNAL_SERVER_ERROR
       /\ q.body.kind = "text/plain"
       /\ q.body.text = <<"Error generating calendar: ">>
       /\ q.body.err \in Errors
    \/ /\ q.status = TOO_MANY_REQUESTS
       /\ Has(q.log, "reject")

ClientGone(q) ==
    /\ Has(q.log, "drop")
    /\ q.status = NoStatus /\ q.body = NoBody
    /\ Answers(q) = 0

C17_ExactlyOneOutcome ==
    /\ \A r \in Slots :
          (req[r].pc # "idle" /\ req[r].path.route = "calendar")
          ~> req[r].pc = "done"
    /\ [](\A r \in Slots :
            req[r].path.route = "calendar"
            => /\ req[r].pc = "done"
                  => \/ Outcome(req[r]) /\ Answers(req[r]) = 1
                                        /\ ~Has(req[r].log, "drop")
                     \/ ClientGone(req[r])
               /\ req[r].pc # "done"
                  => req[r].status = NoStatus /\ Answers(req[r]) = 0)
    /\ [][\A r \in Slots :
            req[r].pc = "done" => req'[r] = req[r] \/ req'[r] = IdleReq]_vars

C17_Witness ==
    \E r1, r2 \in Slots :
        /\ req[r1].pc = "done" /\ req[r1].status = INTERNAL_SERVER_ERROR
        /\ req[r1].path.route = "calendar" /\ Has(req[r1].log, "pending")
        /\ req[r2].pc = "done" /\ req[r2].status = OK
        /\ req[r2].path.route = "calendar" /\ Has(req[r2].log, "fetch_ok")

\* C17 as stated: a request to the calendar endpoint never ends without one
\* of the four answers.
C17_NeverEndsUnanswered ==
    \A r \in Slots :
        (req[r].pc = "done" /\ req[r].path.route = "calendar")
        => Outcome(req[r]) /\ Answers(req[r]) = 1

---------------------------------------------------------------------------
(* C18: the buckets of distinct client addresses are independent: a        *)
(* request of address a takes one cell of the bucket of a and leaves every *)
(* other bucket as it is, and whether a request of b is admitted depends   *)
(* on the bucket of b alone; a bucket never holds more than 20 cells nor   *)
(* owes more than 20, and the bucket of an address not seen yet is full.   *)
Cells(c) == (BucketSpan - debt[c]) \div ReplenishPeriod

RequestOf(c) ==
    /\ probe'.kind = "check" /\ probe'.client = c
    /\ hist'[c].recent = 1
    /\ <<probe, hist, debt>>' # <<probe, hist, debt>>

C18_BucketsIndependent ==
    /\ \A c \in Clients : Cells(c) = BurstSize
    /\ [](\A c \in Clients : Cells(c) \in 0..BurstSize /\ debt[c] <= BucketSpan)
    /\ [][\A a \in Clients :
            /\ RequestOf(a)
                 => /\ probe'.admitted = (Cells(a) >= 1)
                    /\ probe'.admitted => Cells(a)' <= Cells(a)
                                          /\ debt'[a] = debt[a] + ReplenishPeriod
                    /\ ~probe'.admitted => debt'[a] = debt[a]
                    /\ \A b \in Clients \ {a} : debt'[b] = debt[b]
            /\ debt'[a] > debt[a] => RequestOf(a)
       ]_vars

C18_Witness ==
    /\ probe.kind = "check" /\ probe.client = "10.0.0.2" /\ probe.admitted
    /\ debt["10.0.0.1"] = BucketSpan
    /\ debt["10.0.0.2"] = ReplenishPeriod

---------------------------------------------------------------------------
(* C19: every key of the cache is one of the 24 listed identifiers, in its *)
(* form without ".ics": never a token that carries the suffix, never an    *)
(* invalid token; so the cache has at most 24 entries, fewer than its      *)
(* capacity of 100, and the requests for X and for X.ics use one entry.    *)
C19_KeysAreListedLines ==
    /\ \A k \in DOMAIN cache :
          /\ k \in ClaimedLines
          /\ ~EndsWithIcs(k)
          /\ k \o Ics \notin DOMAIN cache
          /\ cache[k].content.line = k
    /\ Cardinality(DOMAIN cache) <= Cardinality(ClaimedLines)
    /\ Cardinality(ClaimedLines) = Len(VALID_TRAINS)
    /\ Cardinality(ClaimedLines) < MaxCapacity
    /\ \A r \in Slots :
          (Has(req[r].log, "insert") \/ Has(req[r].log, "hit"))
          => /\ req[r].body.doc.line \in ClaimedLines
             /\ Names(req[r].path.token, req[r].body.doc.line)

C19_Witness ==
    \E r1, r2 \in Slots :
        /\ req[r1].pc = "done" /\ req[r1].path.token = <<"7">> \o Ics
        /\ Has(req[r1].log, "insert")
        /\ req[r2].pc = "done" /\ req[r2].path.token = <<"Q">> \o Ics
        /\ Has(req[r2].log, "hit")
        /\ DOMAIN cache = { <<"Q">>, <<"7">> }

---------------------------------------------------------------------------
(* C20: whatever the interleaving, the body of a 200 answer to a request   *)
(* for line X is a document that upstream produced for X, obtained by this *)
(* request's own call or from the entry of X; a document produced for      *)
(* another line is never served for X, and the entry of X holds a document *)
(* produced for X.                                                         *)
ProducedFor(x) == {Document(x, v) : v \in 1..NumVersions}

C20_ServedContentIsOfLine ==
    /\ \A k \in DOMAIN cache : cache[k].content \in ProducedFor(k)
    /\ \A r \in Slots :
          (req[r].path.route = "calendar" /\ req[r].status = OK)
          => /\ req[r].body.doc \in ProducedFor(StripIcs(req[r].path.token))
             /\ \A y \in ClaimedLines :
                   ~Names(req[r].path.token, y)
                   => req[r].body.doc \notin ProducedFor(y)
             /\ Has(req[r].log, "hit") # Has(req[r].log, "fetch_ok")

C20_Witness ==
    \E r1, r2 \in Slots :
        /\ req[r1].status = OK /\ req[r1].path.token = <<"Q">>
        /\ Has(req[r1].log, "hit")
        /\ req[r1].body.doc = Document(<<"Q">>, 2)
        /\ req[r2].status = OK /\ req[r2].path.token = <<"7">> \o Ics
        /\ req[r2].body.doc = Document(<<"7">>, 1)
        /\ DOMAIN cache = { <<"Q">>, <<"7">> }

===========================================================================
